---- MODULE Spec2Model ----
(***************************************************************************)
(* Model of the ledger / consensus engine of src/Blockchain.py: the        *)
(* Blockchain class (chain, transaction pool, node set), its hashing and   *)
(* proof-of-work, the chain validator, the peer resolution algorithm and    *)
(* the mine handler.                                                        *)
(*                                                                          *)
(* SHA-256 is modelled by a polynomial digest over the encoded text, with   *)
(* a digest of DigestLen digits in base HexBase (scaled down from 64 hex    *)
(* digits) so that the brute-force proof search terminates in a few steps.  *)
(* Text is a sequence of character codes (naturals).                        *)
(***************************************************************************)
EXTENDS Integers, Sequences, FiniteSets, TLC

VARIABLES
    chain,                \* Blockchain.chain: sequence of blocks
    currentTransactions,  \* Blockchain.currentTransactions: the pool
    nodes,                \* Blockchain.nodes: set of normalized addresses
    clock,                \* the value the next call of time() returns
    op,                   \* the event that happened last
    ret,                  \* what it returned, or the error it raised
    tickets,              \* for each pool entry, the index new_transaction returned
    submitted,            \* transactions callers submitted since the last new_block
    accepted,             \* number of transactions callers submitted so far
    peers,                \* what each registered peer answers to GET /chain, where observed
    calls,                \* the last calls of the methods under observation, where observed
    inflight              \* the /mine requests in progress, where requests interleave

vars == <<chain, currentTransactions, nodes, clock, op, ret, tickets, submitted, accepted, peers, calls, inflight>>

-----------------------------------------------------------------------------
(* Bounds of the model *)

MaxMined == 2        \* mine is enabled while this node has mined fewer blocks
MaxSubmitted == 2    \* callers submit at most this many transactions in a run
HexBase == 2         \* digits of a digest are in 0..HexBase-1
DigestLen == 12      \* number of digits of a digest
SearchStride == 16   \* candidates proof_of_work tries in one step of the model
ProbeMax == 24       \* proofs 0..ProbeMax are written into the blocks handed to the methods observed

(* Program constants *)

Difficulty == 4          \* number of leading zero digits valid_proof asks for
GenesisProof == 100      \* proof of the genesis block
GenesisPreviousHash == 1 \* previous_hash of the genesis block

-----------------------------------------------------------------------------
(* Values as JSON knows them: integers and strings are never equal. *)

JInt(n) == [t |-> "int", v |-> n]
JStr(s) == [t |-> "str", v |-> s]

\* Python truthiness of a scalar: 0 and "" are false
Truthy(x) == IF x.t = "int" THEN x.v # 0 ELSE x.v # <<>>

-----------------------------------------------------------------------------
(* Text *)

RECURSIVE Pow(_, _)
Pow(b, e) == IF e = 0 THEN 1 ELSE b * Pow(b, e - 1)

RECURSIVE Decimal(_)
\* str(n) for a non-negative integer: its decimal digits
Decimal(n) == IF n < 10 THEN <<n>> ELSE Decimal(n \div 10) \o <<n % 10>>

\* character codes beyond the digits 0..15
Quote == 16
LBrace == 17
RBrace == 18
LBracket == 19
RBracket == 20
Colon == 21
Comma == 22
Space == 23

\* the characters of the names the model uses, one code per name
NameCode(s) ==
    CASE s = "0" -> <<0>>
      [] s = "alice" -> <<30>>
      [] s = "bob" -> <<31>>
      [] s = "node_identifier" -> <<32>>
      [] s = "peer" -> <<33>>
      [] s = "amount" -> <<40>>
      [] s = "index" -> <<41>>
      [] s = "previous_hash" -> <<42>>
      [] s = "proof" -> <<43>>
      [] s = "recipient" -> <<44>>
      [] s = "sender" -> <<45>>
      [] s = "timestamp" -> <<46>>
      [] s = "transactions" -> <<47>>

Quoted(text) == <<Quote>> \o text \o <<Quote>>

Key(s) == Quoted(NameCode(s)) \o <<Colon, Space>>

\* json.dumps of a scalar
DumpScalar(x) == IF x.t = "int" THEN Decimal(x.v) ELSE Quoted(x.v)

\* json.dumps(tx, sort_keys=True): keys amount, recipient, sender
DumpTransaction(tx) ==
    <<LBrace>> \o Key("amount") \o Decimal(tx.amount)
        \o <<Comma, Space>> \o Key("recipient") \o Quoted(NameCode(tx.recipient))
        \o <<Comma, Space>> \o Key("sender") \o Quoted(NameCode(tx.sender))
        \o <<RBrace>>

RECURSIVE DumpTransactions(_)
DumpTransactions(txs) ==
    IF txs = <<>> THEN <<>>
    ELSE IF Len(txs) = 1 THEN DumpTransaction(txs[1])
    ELSE DumpTransaction(txs[1]) \o <<Comma, Space>> \o DumpTransactions(Tail(txs))

\* json.dumps(block, sort_keys=True): keys index, previous_hash, proof,
\* timestamp, transactions
json_dumps(block) ==
    <<LBrace>> \o Key("index") \o Decimal(block.index)
        \o <<Comma, Space>> \o Key("previous_hash") \o DumpScalar(block.previous_hash)
        \o <<Comma, Space>> \o Key("proof") \o Decimal(block.proof)
        \o <<Comma, Space>> \o Key("timestamp") \o Decimal(block.timestamp)
        \o <<Comma, Space>> \o Key("transactions")
        \o <<LBracket>> \o DumpTransactions(block.transactions) \o <<RBracket>>
        \o <<RBrace>>

-----------------------------------------------------------------------------
(* Hashing *)

\* F applied to the value of v, the value computed once
Let(v, F(_)) == CHOOSE r \in {F(x) : x \in {v}} : TRUE

Modulus == Pow(HexBase, DigestLen)

\* absorbing the characters lo..hi of the text, from left to right, into a
\* running value h gives (h * Compress.m + Compress.v) % 32749
RECURSIVE Compress(_, _, _)
Compress(text, lo, hi) ==
    IF lo = hi THEN [v |-> text[lo] + 1, m |-> 31]
    ELSE Let(<<Compress(text, lo, (lo + hi) \div 2), Compress(text, ((lo + hi) \div 2) + 1, hi)>>,
             LAMBDA halves : [v |-> (halves[1].v * halves[2].m + halves[2].v) % 32749,
                              m |-> (halves[1].m * halves[2].m) % 32749])

\* the digest of a text, as a number below Modulus
sha256(text) ==
    Let(text, LAMBDA t :
        IF t = <<>> THEN 7 % Modulus
        ELSE Let(Compress(t, 1, Len(t)), LAMBDA c : ((7 * c.m + c.v) % 32749) % Modulus))

\* the digits of a digest, most significant first
hexdigest(d) ==
    Let(d, LAMBDA n : [i \in 1..DigestLen |-> (n \div Pow(HexBase, DigestLen - i)) % HexBase])

\* Blockchain.hash(block)
hash(block) == hexdigest(sha256(json_dumps(block)))

\* Blockchain.valid_proof(last_proof, proof, last_hash)
valid_proof(last_proof, proof, last_hash) ==
    LET guess == Decimal(last_proof) \o Decimal(proof) \o last_hash
        guess_hash == hexdigest(sha256(guess))
    IN  SubSeq(guess_hash, 1, Difficulty) = [i \in 1..Difficulty |-> 0]

\* a search returning the last candidate of a stride that valid_proof accepts
RECURSIVE Search_last_found(_, _, _)
Search_last_found(last_proof, last_hash, start) ==
    Let({p \in start..(start + SearchStride - 1) : valid_proof(last_proof, p, last_hash)},
        LAMBDA found :
            IF found # {} THEN CHOOSE p \in found : \A q \in found : p >= q
            ELSE Search_last_found(last_proof, last_hash, start + SearchStride))

\* the loop of Blockchain.proof_of_work from the candidate start on: the
\* first candidate in increasing order that valid_proof accepts, the
\* candidates tried SearchStride at a time
RECURSIVE Search(_, _, _)
Search(last_proof, last_hash, start) ==
    Let({p \in start..(start + SearchStride - 1) : valid_proof(last_proof, p, last_hash)},
        LAMBDA found :
            IF found # {} THEN CHOOSE p \in found : \A q \in found : p <= q
            ELSE Search(last_proof, last_hash, start + SearchStride))

\* Blockchain.proof_of_work(last_block)
proof_of_work(last_block) ==
    Let(<<last_block.proof, hash(last_block)>>, LAMBDA last : Search(last[1], last[2], 0))

-----------------------------------------------------------------------------
(* URL parsing: urllib.parse.urlparse on an address, a sequence of the      *)
(* characters below.  Only the scheme, netloc and path components matter.   *)

Alpha == {"h", "a"}
Digit == {"1", "2", "5"}
SchemeChars == Alpha \cup Digit \cup {"+", "-", "."}

\* str.find: the first position of character c in url at or after from, 0 if none
RECURSIVE Find(_, _, _)
Find(url, c, from) ==
    IF from > Len(url) THEN 0
    ELSE IF url[from] = c THEN from
    ELSE Find(url, c, from + 1)

urlparse(url) ==
    LET i == Find(url, ":", 1)
        hasScheme == /\ i > 1
                     /\ url[1] \in Alpha
                     /\ \A k \in 1..(i - 1) : url[k] \in SchemeChars
        rest == IF hasScheme THEN SubSeq(url, i + 1, Len(url)) ELSE url
        hasNetloc == Len(rest) >= 2 /\ rest[1] = "/" /\ rest[2] = "/"
        delim == IF hasNetloc THEN Find(rest, "/", 3) ELSE 0
        stop == IF delim = 0 THEN Len(rest) + 1 ELSE delim
    IN  [scheme |-> IF hasScheme THEN SubSeq(url, 1, i - 1) ELSE <<>>,
         netloc |-> IF hasNetloc THEN SubSeq(rest, 3, stop - 1) ELSE <<>>,
         path   |-> IF hasNetloc THEN SubSeq(rest, stop, Len(rest)) ELSE rest]

-----------------------------------------------------------------------------
(* The Blockchain object: self is the record of its three fields.  Every    *)
(* method returns the object after the call, what the call returned and     *)
(* the error it raised ("none" when it returned normally).                  *)

NoError == "none"

Outcome(self, value, error) == [self |-> self, value |-> value, error |-> error]

\* Blockchain.last_block
last_block(self) == self.chain[Len(self.chain)]

\* new_block without the reset of the pool
new_block_keeps_pool(self, proof, previous_hash, now) ==
    Outcome([self EXCEPT !.chain = Append(self.chain,
                 [index |-> Len(self.chain) + 1,
                  timestamp |-> now,
                  transactions |-> self.currentTransactions,
                  proof |-> proof,
                  previous_hash |-> IF Truthy(previous_hash) THEN previous_hash
                                    ELSE JStr(hash(last_block(self)))])],
            [index |-> Len(self.chain) + 1,
             timestamp |-> now,
             transactions |-> self.currentTransactions,
             proof |-> proof,
             previous_hash |-> IF Truthy(previous_hash) THEN previous_hash
                               ELSE JStr(hash(last_block(self)))],
            NoError)

\* Blockchain.new_block(proof, previous_hash), time() returning now
new_block(self, proof, previous_hash, now) ==
    LET block == [index |-> Len(self.chain) + 1,
                  timestamp |-> now,
                  transactions |-> self.currentTransactions,
                  proof |-> proof,
                  previous_hash |-> IF Truthy(previous_hash) THEN previous_hash
                                    ELSE JStr(hash(last_block(self)))]
    IN  Outcome([self EXCEPT !.currentTransactions = <<>>,
                             !.chain = Append(self.chain, block)],
                block, NoError)

\* Blockchain.__init__, time() returning now
BlockchainInit(now) ==
    new_block([chain |-> <<>>, currentTransactions |-> <<>>, nodes |-> {}],
              GenesisProof, JInt(GenesisPreviousHash), now).self

\* new_transaction inserting at the front of the pool
new_transaction_prepend(self, sender, recipient, amount) ==
    Outcome([self EXCEPT !.currentTransactions =
                 <<[sender |-> sender, recipient |-> recipient, amount |-> amount]>> \o @],
            last_block(self).index + 1, NoError)

\* Blockchain.new_transaction(sender, recipient, amount)
new_transaction(self, sender, recipient, amount) ==
    LET after == [self EXCEPT !.currentTransactions =
                      Append(@, [sender |-> sender, recipient |-> recipient, amount |-> amount])]
    IN  Outcome(after, last_block(after).index + 1, NoError)

\* register_node storing the path also when the address has a netloc
register_node_stores_path(self, address) ==
    IF urlparse(address).netloc # <<>> \/ urlparse(address).path # <<>>
    THEN Outcome([self EXCEPT !.nodes = @ \cup {urlparse(address).path}], 0, NoError)
    ELSE Outcome(self, 0, "ValueError")

\* Blockchain.register_node(address)
register_node(self, address) ==
    LET parsed_url == urlparse(address)
    IN  IF parsed_url.netloc # <<>>
        THEN Outcome([self EXCEPT !.nodes = @ \cup {parsed_url.netloc}], 0, NoError)
        ELSE IF parsed_url.path # <<>>
        THEN Outcome([self EXCEPT !.nodes = @ \cup {parsed_url.path}], 0, NoError)
        ELSE Outcome(self, 0, "ValueError")

\* set.remove(x): KeyError when x is not a member
SetRemove(self, x) ==
    IF x \in self.nodes
    THEN Outcome([self EXCEPT !.nodes = @ \ {x}], 0, NoError)
    ELSE Outcome(self, 0, "KeyError")

\* deregister_node without the early return on an empty Node Set
deregister_node_parses_first(self, address) ==
    IF urlparse(address).netloc # <<>> THEN SetRemove(self, urlparse(address).netloc)
    ELSE IF urlparse(address).path # <<>> THEN SetRemove(self, urlparse(address).path)
    ELSE Outcome(self, 0, "ValueError")

\* Blockchain.deregister_node(address)
deregister_node(self, address) ==
    IF Cardinality(self.nodes) = 0
    THEN Outcome(self, 0, NoError)
    ELSE LET parsed_url == urlparse(address)
         IN  IF parsed_url.netloc # <<>> THEN SetRemove(self, parsed_url.netloc)
             ELSE IF parsed_url.path # <<>> THEN SetRemove(self, parsed_url.path)
             ELSE Outcome(self, 0, "ValueError")

\* the pair test of the loop of Blockchain.valid_chain
ValidLink(previous, block) ==
    LET last_block_hash == hash(previous)
    IN  /\ block.previous_hash = JStr(last_block_hash)
        /\ valid_proof(previous.proof, block.proof, last_block_hash)

\* valid_chain without the check of the proofs
valid_chain_links_only(c) ==
    \A current_index \in 2..Len(c) : c[current_index].previous_hash = JStr(hash(c[current_index - 1]))

\* valid_chain stopping before the last block
valid_chain_skips_last(c) ==
    \A current_index \in 2..(Len(c) - 1) : ValidLink(c[current_index - 1], c[current_index])

\* Blockchain.valid_chain(chain), for a chain of at least one block
\* (chain[0] of an empty chain raises IndexError)
valid_chain(c) == \A current_index \in 2..Len(c) : ValidLink(c[current_index - 1], c[current_index])

\* a response of requests.get(f'http://{node}/chain'): raises is the network
\* error, otherwise status_code and, in the JSON body, length and chain
Response(raises, status_code, length, c) ==
    [raises |-> raises, status_code |-> status_code, length |-> length, chain |-> c]

\* the loop keeping the first candidate it accepts
RECURSIVE ResolveLoop_keeps_first(_, _, _, _, _)
ResolveLoop_keeps_first(order, response, i, max_length, new_chain) ==
    IF i > Len(order) THEN [new_chain |-> new_chain, max_length |-> max_length, error |-> NoError]
    ELSE IF response[order[i]].raises
    THEN [new_chain |-> new_chain, max_length |-> max_length, error |-> "ConnectionError"]
    ELSE IF /\ new_chain = <<>>
            /\ response[order[i]].status_code = 200
            /\ response[order[i]].length > max_length
            /\ valid_chain(response[order[i]].chain)
    THEN ResolveLoop_keeps_first(order, response, i + 1, response[order[i]].length,
                                 <<response[order[i]].chain>>)
    ELSE ResolveLoop_keeps_first(order, response, i + 1, max_length, new_chain)

\* the loop of Blockchain.resolve_conflicts over the peers in visit order,
\* from position i on; new_chain is <<>> for None and <<c>> for the chain c
RECURSIVE ResolveLoop(_, _, _, _, _)
ResolveLoop(order, response, i, max_length, new_chain) ==
    IF i > Len(order) THEN [new_chain |-> new_chain, max_length |-> max_length, error |-> NoError]
    ELSE LET r == response[order[i]]
         IN  IF r.raises
             THEN [new_chain |-> new_chain, max_length |-> max_length, error |-> "ConnectionError"]
             ELSE IF r.status_code = 200 /\ r.length > max_length
             THEN IF r.chain = <<>>
                  THEN [new_chain |-> new_chain, max_length |-> max_length, error |-> "IndexError"]
                  ELSE IF valid_chain(r.chain)
                  THEN ResolveLoop(order, response, i + 1, r.length, <<r.chain>>)
                  ELSE ResolveLoop(order, response, i + 1, max_length, new_chain)
             ELSE ResolveLoop(order, response, i + 1, max_length, new_chain)

\* resolve_conflicts emptying the pool when it replaces the chain
resolve_conflicts_clears_pool(self, order, response) ==
    IF ResolveLoop(order, response, 1, Len(self.chain), <<>>).error # NoError
    THEN Outcome(self, FALSE, ResolveLoop(order, response, 1, Len(self.chain), <<>>).error)
    ELSE IF ResolveLoop(order, response, 1, Len(self.chain), <<>>).new_chain # <<>>
    THEN Outcome([self EXCEPT
                     !.chain = ResolveLoop(order, response, 1, Len(self.chain), <<>>).new_chain[1],
                     !.currentTransactions = <<>>], TRUE, NoError)
    ELSE Outcome(self, FALSE, NoError)

\* Blockchain.resolve_conflicts(), the peers visited in the given order and
\* answering as response says
resolve_conflicts(self, order, response) ==
    LET loop == ResolveLoop(order, response, 1, Len(self.chain), <<>>)
    IN  IF loop.error # NoError THEN Outcome(self, FALSE, loop.error)
        ELSE IF loop.new_chain # <<>> /\ loop.new_chain[1] # <<>>
        THEN Outcome([self EXCEPT !.chain = loop.new_chain[1]], TRUE, NoError)
        ELSE Outcome(self, FALSE, NoError)

\* the reward transaction of the mine handler
Reward(identifier) == [sender |-> "0", recipient |-> identifier, amount |-> 1]

\* a /mine handler that forges the block from the reward transaction alone
mine_drops_pool(self, identifier, now) ==
    new_block([self EXCEPT !.currentTransactions = <<Reward(identifier)>>],
              proof_of_work(last_block(self)), JStr(hash(last_block(self))), now)

\* the /mine handler of a node whose node_identifier is identifier
mine(self, identifier, now) ==
    LET tip == last_block(self)
        found == proof_of_work(tip)
        rewarded == new_transaction(self, "0", identifier, 1).self
        tip_hash == JStr(hash(tip))
    IN  new_block(rewarded, found, tip_hash, now)

\* the /mine handler, statement by statement: line 224
mine_read(self) == last_block(self)

\* line 225
mine_proof(last) == proof_of_work(last)

\* lines 229-233
mine_reward(self, identifier) == new_transaction(self, "0", identifier, 1)

\* the forging of a block on the last block of the chain as it is now,
\* with the proof the request computed
mine_forge_on_tip(self, last, proof, now) ==
    new_block(self, proof, JStr(hash(last_block(self))), now)

\* the forging of a block with a proof and a hash computed anew from the
\* last block of the chain as it is now
mine_forge_rebuilt(self, last, proof, now) ==
    new_block(self, proof_of_work(last_block(self)), JStr(hash(last_block(self))), now)

\* lines 236-237, last and proof being the locals last_block and proof
mine_forge(self, last, proof, now) == new_block(self, proof, JStr(hash(last)), now)

-----------------------------------------------------------------------------
(* The environment: addresses callers pass, transactions they submit and    *)
(* what peers answer.                                                       *)

node_identifier == "node_identifier"

UserTransactions ==
    {[sender |-> "alice", recipient |-> "bob", amount |-> 5],
     [sender |-> "bob", recipient |-> "alice", amount |-> 7]}

AddrBare1 == <<"1", ":", "5">>                           \* 1:5
AddrHttp1 == <<"h", ":", "/", "/", "1", ":", "5">>       \* h://1:5
AddrHttp2 == <<"h", ":", "/", "/", "2", ":", "5">>       \* h://2:5
AddrNamed == <<"a", ":", "5">>                           \* a:5
AddrEmpty == <<>>                                        \* the empty string
AddrNoHost == <<"h", ":", "/", "/">>                     \* h://
AddrHttpNamed == <<"h", ":", "/", "/", "a", ":", "5">>   \* h://a:5

Addresses == {AddrBare1, AddrHttp1, AddrHttp2, AddrNamed, AddrHttpNamed, AddrEmpty, AddrNoHost}
LedgerAddresses == {AddrBare1, AddrHttp2, AddrEmpty}
ResolveAddresses == {AddrBare1, AddrHttp2, AddrNamed}

\* the time of the construction of the ledgers
Epoch == 0

\* chains of a peer running this program: its genesis and blocks it mined
PeerChain1 == BlockchainInit(Epoch)
PeerChain2 == mine(PeerChain1, "peer", 5).self
PeerChain3 == mine(PeerChain2, "peer", 6).self
PeerChain3b == mine(PeerChain2, "peer", 7).self
PeerChain4 == mine(PeerChain3, "peer", 8).self

\* the chain of a peer whose first block is not a genesis block, followed by
\* a block mined on it
ForgedChain ==
    mine([chain |-> <<[index |-> 7, timestamp |-> Epoch, transactions |-> <<>>, proof |-> 3,
                       previous_hash |-> JStr(hexdigest(0))]>>,
          currentTransactions |-> <<>>, nodes |-> {}], "peer", 5).self

\* a proof that does not continue the chain c
BadProof(c) ==
    CHOOSE p \in 0..(c[Len(c)].proof + 2) :
        ~valid_proof(c[Len(c) - 1].proof, p, hash(c[Len(c) - 1]))

\* c with the proof of its last block replaced
CorruptProof(c) == [c EXCEPT ![Len(c)].proof = BadProof(c)]

\* a length no chain of the model has
LieLength == 9

Unreachable == Response(TRUE, 0, 0, <<>>)
ServerError == Response(FALSE, 500, 0, <<>>)

\* what a peer answers where the answers are not observed
Responses ==
    {Unreachable, ServerError,
     Response(FALSE, 200, 3, PeerChain3.chain),
     Response(FALSE, 200, 3, CorruptProof(PeerChain3.chain)),
     Response(FALSE, 200, LieLength, Tail(Tail(PeerChain3.chain))),
     Response(FALSE, 200, LieLength, <<>>)}

\* what a peer answers where the answers are observed
ResolveResponses ==
    {Unreachable, ServerError,
     Response(FALSE, 200, 1, PeerChain1.chain),
     Response(FALSE, 200, 3, PeerChain3.chain),
     Response(FALSE, 200, 3, PeerChain3b.chain),
     Response(FALSE, 200, 4, PeerChain4.chain),
     Response(FALSE, 200, 4, CorruptProof(PeerChain4.chain))}

\* the orders in which a for loop can visit the members of the set S
Orders(S) ==
    {o \in [1..Cardinality(S) -> S] : \A i, j \in 1..Cardinality(S) : o[i] = o[j] => i = j}

-----------------------------------------------------------------------------
(* The state machine *)

Self == [chain |-> chain, currentTransactions |-> currentTransactions, nodes |-> nodes]

Result(value, error) == [value |-> value, error |-> error]

Init ==
    /\ chain = BlockchainInit(Epoch).chain
    /\ currentTransactions = BlockchainInit(Epoch).currentTransactions
    /\ nodes = BlockchainInit(Epoch).nodes
    /\ clock = Epoch + 1
    /\ op = "init"
    /\ ret = Result(0, NoError)
    /\ tickets = <<>>
    /\ submitted = <<>>
    /\ accepted = 0
    /\ peers = <<>>
    /\ calls = <<>>
    /\ inflight = <<>>

Becomes(out) ==
    /\ chain' = out.self.chain
    /\ currentTransactions' = out.self.currentTransactions
    /\ nodes' = out.self.nodes
    /\ ret' = Result(out.value, out.error)

\* GET /mine
Mine ==
    /\ clock - Epoch <= MaxMined
    /\ Becomes(mine(Self, node_identifier, clock))
    /\ clock' = clock + 1
    /\ op' = "mine"
    /\ tickets' = <<>>
    /\ submitted' = <<>>
    /\ calls' = <<>>
    /\ UNCHANGED <<accepted, peers, inflight>>

\* blockchain.new_transaction(sender, recipient, amount)
NewTransaction(tx) ==
    /\ accepted < MaxSubmitted
    /\ accepted' = accepted + 1
    /\ \E out \in {new_transaction(Self, tx.sender, tx.recipient, tx.amount)} :
           /\ Becomes(out)
           /\ tickets' = Append(tickets, out.value)
    /\ submitted' = Append(submitted, tx)
    /\ op' = "new_transaction"
    /\ calls' = <<>>
    /\ UNCHANGED <<clock, peers, inflight>>

\* blockchain.register_node(address)
RegisterNode(address) ==
    /\ Becomes(register_node(Self, address))
    /\ op' = "register_node"
    /\ UNCHANGED <<clock, tickets, submitted, accepted, peers, calls, inflight>>

\* blockchain.deregister_node(address)
DeregisterNode(address) ==
    /\ Becomes(deregister_node(Self, address))
    /\ op' = "deregister_node"
    /\ UNCHANGED <<clock, tickets, submitted, accepted, peers, calls, inflight>>

\* blockchain.resolve_conflicts(), each peer answering anything
ResolveConflicts ==
    /\ \E order \in Orders(nodes) : \E response \in [nodes -> Responses] :
           Becomes(resolve_conflicts(Self, order, response))
    /\ op' = "resolve_conflicts"
    /\ UNCHANGED <<clock, tickets, submitted, accepted, peers, calls, inflight>>

Next ==
    \/ Mine
    \/ \E tx \in UserTransactions : NewTransaction(tx)
    \/ \E address \in LedgerAddresses : RegisterNode(address)
    \/ \E address \in LedgerAddresses : DeregisterNode(address)
    \/ ResolveConflicts

Spec == Init /\ [][Next]_vars

-----------------------------------------------------------------------------
(* Resolution observed: the answers of the registered peers are part of     *)
(* the state.                                                               *)

\* blockchain.register_node(address) of a peer that answers r
RegisterPeer(address, r) ==
    /\ Becomes(register_node(Self, address))
    /\ peers' = [n \in nodes' |-> IF n \in nodes THEN peers[n] ELSE r]
    /\ op' = "register_node"
    /\ UNCHANGED <<clock, tickets, submitted, accepted, calls, inflight>>

\* the registered peer n answers r from now on
PeerAnswers(n, r) ==
    /\ peers[n] # r
    /\ peers' = [peers EXCEPT ![n] = r]
    /\ op' = "peer_answers"
    /\ ret' = Result(0, NoError)
    /\ UNCHANGED <<chain, currentTransactions, nodes, clock, tickets, submitted, accepted, calls, inflight>>

\* blockchain.resolve_conflicts(), the peers answering as peers says
ResolveObserved ==
    /\ \E order \in Orders(nodes) : Becomes(resolve_conflicts(Self, order, peers))
    /\ op' = "resolve_conflicts"
    /\ UNCHANGED <<clock, tickets, submitted, accepted, peers, calls, inflight>>

NextResolve ==
    \/ Mine
    \/ \E address \in ResolveAddresses : \E r \in ResolveResponses : RegisterPeer(address, r)
    \/ \E n \in nodes : \E r \in ResolveResponses : PeerAnswers(n, r)
    \/ ResolveObserved

SpecResolve == Init /\ [][NextResolve]_vars

-----------------------------------------------------------------------------
(* The registry observed: the last two calls are part of the state.        *)

Call(name, address, out) ==
    [op |-> name, address |-> address, before |-> nodes, after |-> out.self.nodes,
     error |-> out.error]

Recorded(call) == IF calls = <<>> THEN <<call>> ELSE <<calls[Len(calls)], call>>

\* blockchain.register_node(address)
RegisterObserved(address) ==
    /\ Becomes(register_node(Self, address))
    /\ calls' = Recorded(Call("register_node", address, register_node(Self, address)))
    /\ op' = "register_node"
    /\ UNCHANGED <<clock, tickets, submitted, accepted, peers, inflight>>

\* blockchain.deregister_node(address)
DeregisterObserved(address) ==
    /\ Becomes(deregister_node(Self, address))
    /\ calls' = Recorded(Call("deregister_node", address, deregister_node(Self, address)))
    /\ op' = "deregister_node"
    /\ UNCHANGED <<clock, tickets, submitted, accepted, peers, inflight>>

NextRegistry ==
    \/ \E address \in Addresses : RegisterObserved(address)
    \/ \E address \in Addresses : DeregisterObserved(address)

SpecRegistry == Init /\ [][NextRegistry]_vars

-----------------------------------------------------------------------------
(* The ledger of a node without peers, with valid_chain and proof_of_work   *)
(* called on it under observation.  Neither method changes the ledger, so   *)
(* one observed call in each state of the ledger covers their behaviour.    *)

\* proofs and previous_hash values a caller writes into a block
ProbeProofs == 0..ProbeMax
ProbeHashes ==
    {JInt(GenesisPreviousHash), JInt(0), JStr(hexdigest(0)), JStr(hexdigest(1)),
     JStr(hash(BlockchainInit(Epoch).chain[1]))}

\* the chain c with the proof or the previous_hash of one block changed
Changed(c) ==
    {[c EXCEPT ![i].proof = p] : i \in DOMAIN c, p \in ProbeProofs}
        \cup {[c EXCEPT ![i].previous_hash = h] : i \in DOMAIN c, h \in ProbeHashes}

\* blockchain.valid_chain(c)
ValidChainObserved(c) ==
    /\ calls = <<>>
    /\ calls' = <<[op |-> "valid_chain", chain |-> c, value |-> valid_chain(c)]>>
    /\ ret' = Result(valid_chain(c), NoError)
    /\ op' = "valid_chain"
    /\ UNCHANGED <<chain, currentTransactions, nodes, clock, tickets, submitted, accepted, peers, inflight>>

\* blockchain.proof_of_work(last_block)
ProofOfWorkObserved(block) ==
    /\ calls = <<>>
    /\ \E proof \in {proof_of_work(block)} :
           /\ calls' = <<[op |-> "proof_of_work", last_block |-> block, value |-> proof]>>
           /\ ret' = Result(proof, NoError)
    /\ op' = "proof_of_work"
    /\ UNCHANGED <<chain, currentTransactions, nodes, clock, tickets, submitted, accepted, peers, inflight>>

NextLocal ==
    \/ Mine
    \/ \E tx \in UserTransactions : NewTransaction(tx)
    \/ \E c \in {chain} \cup Changed(chain) : ValidChainObserved(c)
    \/ \E block \in {c[i] : c \in {chain} \cup Changed(chain), i \in DOMAIN chain} : ProofOfWorkObserved(block)

SpecLocal == Init /\ [][NextLocal]_vars

-----------------------------------------------------------------------------
(* Requests served concurrently: the statements of two /mine requests        *)
(* interleave with each other and with resolve_conflicts.                    *)
(* inflight[h] holds the locals of request h: where it is, the last_block    *)
(* it read and the proof it computed; replaced is a history flag telling     *)
(* that resolve_conflicts replaced the chain after the request read it.      *)

Handlers == {1, 2}

Locals(pc, last, proof, replaced) ==
    [pc |-> pc, last_block |-> last, proof |-> proof, replaced |-> replaced]

\* request h starts: last_block = blockchain.last_block
MineRead(h) ==
    /\ h \notin DOMAIN inflight
    /\ (clock - Epoch - 1) + Cardinality(DOMAIN inflight) < MaxMined
    /\ inflight' = [k \in DOMAIN inflight \cup {h} |->
                       IF k = h THEN Locals("proof_of_work", mine_read(Self), 0, FALSE)
                       ELSE inflight[k]]
    /\ op' = "mine_read"
    /\ ret' = Result(0, NoError)
    /\ UNCHANGED <<chain, currentTransactions, nodes, clock, tickets, submitted, accepted, peers, calls>>

\* proof = blockchain.proof_of_work(last_block)
MineProof(h) ==
    /\ h \in DOMAIN inflight
    /\ inflight[h].pc = "proof_of_work"
    /\ inflight' = [inflight EXCEPT ![h].pc = "new_transaction",
                                    ![h].proof = mine_proof(inflight[h].last_block)]
    /\ op' = "mine_proof"
    /\ ret' = Result(0, NoError)
    /\ UNCHANGED <<chain, currentTransactions, nodes, clock, tickets, submitted, accepted, peers, calls>>

\* blockchain.new_transaction(sender="0", recipient=node_identifier, amount=1)
MineReward(h) ==
    /\ h \in DOMAIN inflight
    /\ inflight[h].pc = "new_transaction"
    /\ Becomes(mine_reward(Self, node_identifier))
    /\ inflight' = [inflight EXCEPT ![h].pc = "new_block"]
    /\ op' = "mine_reward"
    /\ UNCHANGED <<clock, tickets, submitted, accepted, peers, calls>>

\* previous_hash = blockchain.hash(last_block); blockchain.new_block(proof,
\* previous_hash); the request ends
MineForge(h) ==
    /\ h \in DOMAIN inflight
    /\ inflight[h].pc = "new_block"
    /\ Becomes(mine_forge(Self, inflight[h].last_block, inflight[h].proof, clock))
    /\ inflight' = [k \in DOMAIN inflight \ {h} |-> inflight[k]]
    /\ clock' = clock + 1
    /\ op' = "mine"
    /\ tickets' = <<>>
    /\ submitted' = <<>>
    /\ UNCHANGED <<accepted, peers, calls>>

\* what a peer answers while requests are in progress
RaceResponses ==
    {Response(FALSE, 200, 3, PeerChain3.chain), Response(FALSE, 200, 2, ForgedChain.chain)}

\* blockchain.resolve_conflicts() while requests are in progress
ResolveInterleaved ==
    /\ \E order \in Orders(nodes) : \E response \in [nodes -> RaceResponses] :
           Becomes(resolve_conflicts(Self, order, response))
    /\ inflight' = [k \in DOMAIN inflight |->
                       [inflight[k] EXCEPT !.replaced = @ \/ chain' # chain]]
    /\ op' = "resolve_conflicts"
    /\ UNCHANGED <<clock, tickets, submitted, accepted, peers, calls>>

NextRace ==
    \/ \E h \in Handlers : MineRead(h)
    \/ \E h \in Handlers : MineProof(h)
    \/ \E h \in Handlers : MineReward(h)
    \/ \E h \in Handlers : MineForge(h)
    \/ RegisterNode(AddrBare1)
    \/ ResolveInterleaved

SpecRace == Init /\ [][NextRace]_vars

-----------------------------------------------------------------------------
(* Properties *)

Last(c) == c[Len(c)]

Genesis == BlockchainInit(Epoch).chain[1]

\* the normalized form of an address: its netloc if it has one, else its path
Normalize(address) ==
    IF urlparse(address).netloc # <<>> THEN urlparse(address).netloc ELSE urlparse(address).path

\* an address with neither a netloc nor a path
Malformed(address) == urlparse(address).netloc = <<>> /\ urlparse(address).path = <<>>

\* C1: in every reachable state each block after the first carries the hash
\* of its predecessor and a proof that valid_proof accepts for the
\* predecessor's proof and hash.
C1_ChainInternallyValid ==
    \A i \in 2..Len(chain) :
        /\ chain[i].previous_hash = JStr(hash(chain[i - 1]))
        /\ valid_proof(chain[i - 1].proof, chain[i].proof, hash(chain[i - 1]))

\* a block mined by this node on top of a chain adopted from a peer
C1_Witness ==
    /\ op = "mine"
    /\ Len(chain) = 2
    /\ chain[1] # Genesis
    /\ Reward(node_identifier) \in {chain[2].transactions[k] : k \in DOMAIN chain[2].transactions}

\* C2: the number of blocks never decreases; an operation leaves the chain
\* alone, mine appends exactly one block, and resolve_conflicts replaces the
\* chain only by a valid chain with strictly more blocks, whatever length
\* the peer reports.
C2_LengthNeverDecreases ==
    [][/\ Len(chain') >= Len(chain)
       /\ op' = "mine" => Len(chain') = Len(chain) + 1
       /\ op' \notin {"mine", "resolve_conflicts"} => chain' = chain
       /\ (op' = "resolve_conflicts" /\ chain' # chain) =>
              (Len(chain') > Len(chain) /\ valid_chain(chain'))]_vars

\* C3: resolve_conflicts returns True and replaces the chain exactly when
\* some reachable registered peer reports a longer chain that valid_chain
\* accepts; otherwise it returns False and the chain is the one before.
C3_ReplacesIffQualifyingPeer ==
    [][op' = "resolve_conflicts" =>
          IF \E n \in nodes : /\ ~peers[n].raises
                              /\ peers[n].status_code = 200
                              /\ peers[n].length > Len(chain)
                              /\ valid_chain(peers[n].chain)
          THEN ret' = Result(TRUE, NoError) /\ chain' # chain
          ELSE ret' = Result(FALSE, NoError) /\ chain' = chain]_vars

\* the chain and return value of resolve_conflicts over the peers in S only
ResolveAmong(S) ==
    {<<resolve_conflicts(Self, order, peers).self.chain, resolve_conflicts(Self, order, peers).value>> :
        order \in Orders(S)}

\* C4: a peer whose fetch raises or answers with a status other than 200 is
\* skipped: resolve_conflicts raises nothing and its result is the result
\* over the remaining peers.
C4_FailedPeerSkipped ==
    [][op' = "resolve_conflicts" =>
          /\ ret'.error = NoError
          /\ <<chain', ret'.value>> \in
                 ResolveAmong({n \in nodes : ~peers[n].raises /\ peers[n].status_code = 200})]_vars

\* C5 as stated: after mine the pool is empty and the new block holds
\* exactly what the pool held before the call.
C5_BlockIsPoolBeforeMine ==
    [][op' = "mine" =>
          /\ currentTransactions' = <<>>
          /\ Last(chain').transactions = currentTransactions]_vars

\* C5: after mine the pool is empty and the new block holds what the pool
\* held before the call followed by the reward transaction.
C5_BlockIsPoolThenReward ==
    [][op' = "mine" =>
          /\ currentTransactions' = <<>>
          /\ Last(chain').transactions = Append(currentTransactions, Reward(node_identifier))]_vars

\* a block mined while the pool held a transaction
C5_Witness ==
    /\ op = "mine"
    /\ currentTransactions = <<>>
    /\ Len(Last(chain).transactions) >= 2

\* C6: the block mine produces lists the transactions callers submitted
\* since the previous block was created, in submission order, followed by
\* the reward transaction as its last element.
C6_SubmissionOrderThenReward ==
    [][op' = "mine" =>
          /\ Len(Last(chain').transactions) = Len(submitted) + 1
          /\ \A k \in 1..Len(submitted) : Last(chain').transactions[k] = submitted[k]
          /\ Last(Last(chain').transactions) =
                 [sender |-> "0", recipient |-> node_identifier, amount |-> 1]]_vars

\* a block mined after two different transactions were submitted
C6_Witness ==
    /\ op = "mine"
    /\ Len(Last(chain).transactions) = 3
    /\ Last(chain).transactions[1] # Last(chain).transactions[2]

\* C7: the block the next mine creates contains every pending transaction
\* and has the index new_transaction returned for it.
C7_ReturnedIndexIsBlockIndex ==
    [][op' = "mine" =>
          \A k \in 1..Len(tickets) :
              /\ Last(chain').transactions[k] = submitted[k]
              /\ Last(chain').index = tickets[k]]_vars

\* C8: deregister_node of a well-formed address that is not a member raises
\* nothing and leaves the Node Set unchanged.
C8_DeregisterAbsentIsNoop ==
    \A k \in DOMAIN calls :
        (/\ calls[k].op = "deregister_node"
         /\ ~Malformed(calls[k].address)
         /\ Normalize(calls[k].address) \notin calls[k].before)
            => (calls[k].error = NoError /\ calls[k].after = calls[k].before)

RoundTrip ==
    /\ Len(calls) = 2
    /\ calls[1].op = "register_node"
    /\ calls[2].op = "deregister_node"
    /\ calls[1].address = calls[2].address
    /\ ~Malformed(calls[1].address)

\* C10 as stated: register_node(a) then deregister_node(a) returns the Node
\* Set to its state before the register, also when a was already a member.
C10_RoundTripRestores == RoundTrip => calls[2].after = calls[1].before

\* C10: register_node(a) then deregister_node(a) raises nothing and leaves
\* the Node Set before the register without the normalized form of a: the
\* same set when that form was not a member, one entry less when it was.
C10_RoundTripRemoves ==
    RoundTrip =>
        /\ calls[1].error = NoError
        /\ calls[2].error = NoError
        /\ calls[2].after = calls[1].before \ {Normalize(calls[1].address)}
        /\ (calls[2].after = calls[1].before) = (Normalize(calls[1].address) \notin calls[1].before)

\* a round trip on an address whose normalized form was already a member
C10_Witness == RoundTrip /\ Normalize(calls[1].address) \in calls[1].before

\* host:port and http://host:port written for the same host and port
SameNode(x, y) ==
    \/ y = <<"h", ":", "/", "/">> \o x /\ Find(x, "/", 1) = 0 /\ x # <<>>
    \/ x = <<"h", ":", "/", "/">> \o y /\ Find(y, "/", 1) = 0 /\ y # <<>>

\* C11: after register_node of one of the forms host:port and
\* http://host:port, register_node of the other form leaves the Node Set
\* unchanged and deregister_node of the other form removes the entry the
\* register stored, raising nothing.
C11_BothFormsOneEntry ==
    (/\ Len(calls) = 2
     /\ calls[1].op = "register_node"
     /\ SameNode(calls[1].address, calls[2].address))
        => /\ calls[1].error = NoError
           /\ calls[2].error = NoError
           /\ calls[2].op = "register_node" => calls[2].after = calls[1].after
           /\ calls[2].op = "deregister_node" =>
                  calls[2].after = calls[1].after \ {Normalize(calls[1].address)}

\* the positions at which the chain c differs from the local chain
ChangedAt(c) == {i \in DOMAIN c : c[i] # chain[i]}

\* C12 as stated: valid_chain accepts the chain built by mine calls and
\* rejects it as soon as the proof or the previous_hash of any one block,
\* at any position and in a chain of any length, has another value.
C12_AnyChangeDetected ==
    (calls # <<>> /\ calls[1].op = "valid_chain")
        => calls[1].value = (calls[1].chain = chain)

\* C12: valid_chain accepts the chain built by mine calls; with the proof
\* or the previous_hash of one block changed it rejects the chain, except
\* that it accepts a chain of a single block whatever its fields are, and
\* accepts a change of the proof of the last block to another value that
\* valid_proof accepts for the block before it.
C12_ChangeDetectedByPairs ==
    (calls # <<>> /\ calls[1].op = "valid_chain")
        => calls[1].value =
               (\/ calls[1].chain = chain
                \/ Len(calls[1].chain) = 1
                \/ /\ ChangedAt(calls[1].chain) = {Len(chain)}
                   /\ Last(calls[1].chain).previous_hash = Last(chain).previous_hash
                   /\ valid_proof(chain[Len(chain) - 1].proof, Last(calls[1].chain).proof,
                                  hash(chain[Len(chain) - 1])))

\* valid_chain rejecting a chain of three blocks whose genesis block has
\* another proof
C12_Witness ==
    /\ op = "valid_chain"
    /\ Len(chain) = 3
    /\ ChangedAt(calls[1].chain) = {1}
    /\ calls[1].chain[1].proof # chain[1].proof
    /\ calls[1].value = FALSE

\* C13: in every reachable state the local chain is non-empty and its
\* first block is a genesis block: index 1, proof 100, previous_hash 1.
C13_GenesisFirst ==
    /\ chain # <<>>
    /\ chain[1].index = 1
    /\ chain[1].proof = GenesisProof
    /\ chain[1].previous_hash = JInt(GenesisPreviousHash)

\* C14: proof_of_work(last_block) returns the smallest non-negative integer
\* that valid_proof accepts for the proof and the hash of last_block, and
\* the call leaves the chain, the pool and the Node Set as they were.
C14_SmallestProofNoEffect ==
    [][op' = "proof_of_work" =>
          /\ chain' = chain /\ currentTransactions' = currentTransactions /\ nodes' = nodes
          /\ calls'[1].value \in Nat
          /\ valid_proof(calls'[1].last_block.proof, calls'[1].value, hash(calls'[1].last_block))
          /\ \A p \in 0..(calls'[1].value - 1) :
                 ~valid_proof(calls'[1].last_block.proof, p, hash(calls'[1].last_block))]_vars

\* proof_of_work on the last block of a chain of three blocks, the search
\* passing over at least two candidates
C14_Witness ==
    /\ op = "proof_of_work"
    /\ Len(chain) = 3
    /\ calls[1].last_block = Last(chain)
    /\ calls[1].value >= 2

\* C15: in every reachable state the block at each position of the local
\* chain carries that position, counted from 1, as its index.
C15_IndexIsPosition == \A i \in DOMAIN chain : chain[i].index = i

\* what resolve_conflicts gives for each order of visiting the registered peers
ResolveOutcomes == {resolve_conflicts(Self, order, peers) : order \in Orders(nodes)}

\* the peers whose chain the loop of resolve_conflicts can accept
Candidates ==
    {n \in nodes : /\ ~peers[n].raises
                   /\ peers[n].status_code = 200
                   /\ peers[n].length > Len(chain)
                   /\ peers[n].chain # <<>>
                   /\ valid_chain(peers[n].chain)}

Forging(h) == h \in DOMAIN inflight /\ h \notin DOMAIN inflight' /\ op' = "mine"

\* the reward transactions in the transaction list of a block
Rewards(block) ==
    {k \in DOMAIN block.transactions : block.transactions[k] = Reward(node_identifier)}

\* C17: when a /mine request appends its block after another request has
\* appended a block built on the last_block both requests read, the two
\* blocks carry the same previous_hash, the second does not carry the
\* hash of the first, and the local chain fails valid_chain.
C17_SecondBlockBreaksChain ==
    [][\A h \in Handlers :
          (/\ Forging(h)
           /\ ~inflight[h].replaced
           /\ Len(chain) >= 2
           /\ chain[Len(chain) - 1] = inflight[h].last_block
           /\ Last(chain).previous_hash = JStr(hash(inflight[h].last_block)))
              => /\ chain' = Append(chain, Last(chain'))
                 /\ Last(chain').previous_hash = Last(chain).previous_hash
                 /\ Last(chain').previous_hash # JStr(hash(Last(chain)))
                 /\ ~valid_chain(chain')]_vars

\* two requests have appended blocks built on the same last block, the
\* first block carrying both reward transactions and the second none
C17_Witness ==
    /\ op = "mine"
    /\ inflight = <<>>
    /\ Len(chain) = 3
    /\ chain[1] = Genesis
    /\ chain[3].previous_hash = chain[2].previous_hash
    /\ Cardinality(Rewards(chain[2])) = 2
    /\ Rewards(chain[3]) = {}
    /\ ~valid_chain(chain)

\* C18: when resolve_conflicts has replaced the chain between the read of
\* last_block by a /mine request and its new_block call, and the last
\* block of the adopted chain is another block, the request appends to the
\* adopted chain a block whose previous_hash and proof were computed from
\* the old last block, and the local chain fails valid_chain.
C18_StaleBlockOnAdoptedChain ==
    [][\A h \in Handlers :
          (/\ Forging(h)
           /\ inflight[h].replaced
           /\ Last(chain) # inflight[h].last_block)
              => /\ chain' = Append(chain, Last(chain'))
                 /\ Last(chain').previous_hash = JStr(hash(inflight[h].last_block))
                 /\ Last(chain').proof = proof_of_work(inflight[h].last_block)
                 /\ ~valid_chain(chain')]_vars

\* a block mined on the genesis block stands on top of the three blocks
\* adopted from a peer
C18_Witness ==
    /\ op = "mine"
    /\ Len(chain) = 4
    /\ SubSeq(chain, 1, 3) = PeerChain3.chain
    /\ chain[4].previous_hash = JStr(hash(Genesis))
    /\ ~valid_chain(chain)

\* the places, in the pool and in the blocks of the chain c, that hold a
\* transaction of the set T
Places(c, pool, T) ==
    Cardinality({k \in DOMAIN pool : pool[k] \in T})
        + Cardinality(UNION {{<<i, k>> : k \in {j \in DOMAIN c[i].transactions :
                                                  c[i].transactions[j] \in T}} : i \in DOMAIN c})

\* C19: with submissions and mine calls only, the blocks appended stay as
\* they are; a submission adds one place for its transaction and no other
\* step changes the number of places (pool or blocks) that hold a given
\* transaction; and the submitted transactions hold as many places as
\* were accepted: none is dropped and none is in two places.
C19_TransactionsConserved ==
    [][/\ Len(chain') >= Len(chain)
       /\ SubSeq(chain', 1, Len(chain)) = chain
       /\ \A tx \in UserTransactions :
              Places(chain', currentTransactions', {tx}) =
                  Places(chain, currentTransactions, {tx})
                      + (IF op' = "new_transaction" /\ Last(submitted') = tx THEN 1 ELSE 0)
       /\ Places(chain', currentTransactions', UserTransactions) = accepted'
       /\ op' = "mine" => Places(<<>>, currentTransactions', UserTransactions) = 0]_vars

\* two submitted transactions rest in two different blocks and the pool is
\* empty
C19_Witness ==
    /\ op = "mine"
    /\ Len(chain) = 3
    /\ accepted = 2
    /\ currentTransactions = <<>>
    /\ Places(<<chain[2]>>, <<>>, UserTransactions) = 1
    /\ Places(<<chain[3]>>, <<>>, UserTransactions) = 1

\* C20: resolve_conflicts leaves the pool and the Node Set as they were,
\* whether or not it replaces the chain; new_transaction leaves the chain
\* and the Node Set as they were; register_node and deregister_node leave
\* the chain and the pool as they were.
C20_Frame ==
    [][/\ op' = "resolve_conflicts" =>
              currentTransactions' = currentTransactions /\ nodes' = nodes
       /\ op' = "new_transaction" =>
              /\ chain' = chain /\ nodes' = nodes
              /\ currentTransactions' = Append(currentTransactions, Last(currentTransactions'))
       /\ op' \in {"register_node", "deregister_node"} =>
              chain' = chain /\ currentTransactions' = currentTransactions]_vars

\* resolve_conflicts has replaced the chain while a transaction is pending
C20_Witness ==
    /\ op = "resolve_conflicts"
    /\ ret = Result(TRUE, NoError)
    /\ currentTransactions # <<>>
    /\ nodes # {}

====
